---- MODULE Spec2Model ----
(***************************************************************************)
(* A model of app.py: the period parser, the interval selector, the two    *)
(* Alpha Vantage fetchers, get_stock_data with its window filter, the      *)
(* command-line adapter main_cli and the Flask handler stockdata.          *)
(*                                                                         *)
(* Strings the program inspects character by character (the period) are    *)
(* sequences of one-character strings.  Durations are whole minutes (every *)
(* timedelta parse_period builds is a whole number of minutes).  Points in *)
(* time are minutes since datetime.min.                                    *)
(***************************************************************************)
EXTENDS Integers, Sequences, FiniteSets, TLC

\* ------------------------------------------------------------------ bounds
\* Longest period string drawn from the whole alphabet.
MaxLen == 3
\* Most entries in a provider payload.
MaxBars == 3

\* -------------------------------------------------------- text primitives
Whitespace == {" "}

DigitChars == {"0", "1", "2", "3", "4", "5", "6", "7", "8", "9"}

DigitVal(c) ==
  CASE c = "0" -> 0 [] c = "1" -> 1 [] c = "2" -> 2 [] c = "3" -> 3
    [] c = "4" -> 4 [] c = "5" -> 5 [] c = "6" -> 6 [] c = "7" -> 7
    [] c = "8" -> 8 [] c = "9" -> 9

\* str.lower() on one character.
LowerChar(c) ==
  CASE c = "M" -> "m" [] c = "H" -> "h" [] c = "D" -> "d"
    [] c = "W" -> "w" [] c = "Y" -> "y" [] c = "X" -> "x"
    [] OTHER -> c

lower(s) == [i \in 1..Len(s) |-> LowerChar(s[i])]

RECURSIVE lstrip(_)
lstrip(s) ==
  IF s # <<>> /\ Head(s) \in Whitespace THEN lstrip(Tail(s)) ELSE s

RECURSIVE rstrip(_)
rstrip(s) ==
  IF s # <<>> /\ s[Len(s)] \in Whitespace
  THEN rstrip(SubSeq(s, 1, Len(s) - 1)) ELSE s

\* str.strip()
strip(s) == rstrip(lstrip(s))

\* str.endswith(c) for a one-character suffix
endswith(s, c) == s # <<>> /\ s[Len(s)] = c

\* s[:-1]
ButLast(s) == IF s = <<>> THEN <<>> ELSE SubSeq(s, 1, Len(s) - 1)

\* The digit groups of an int() literal: digits, with single underscores
\* allowed only between two digits.
RECURSIVE IsDigitGroups(_)
IsDigitGroups(s) ==
  /\ s # <<>>
  /\ Head(s) \in DigitChars
  /\ \/ Len(s) = 1
     \/ /\ s[2] = "_"
        /\ IsDigitGroups(SubSeq(s, 3, Len(s)))
     \/ /\ s[2] # "_"
        /\ IsDigitGroups(Tail(s))

RECURSIVE DigitsValue(_, _)
DigitsValue(s, acc) ==
  IF s = <<>> THEN acc
  ELSE IF Head(s) = "_" THEN DigitsValue(Tail(s), acc)
  ELSE DigitsValue(Tail(s), 10 * acc + DigitVal(Head(s)))

\* Python's int(text): surrounding whitespace is dropped, one sign is
\* accepted, then the digit groups.  ok = FALSE is the ValueError.
int(text) ==
  LET t == strip(text)
      signed == t # <<>> /\ Head(t) \in {"+", "-"}
      body == IF signed THEN Tail(t) ELSE t
  IN IF IsDigitGroups(body)
     THEN [ok |-> TRUE,
           val |-> IF signed /\ Head(t) = "-"
                   THEN 0 - DigitsValue(body, 0) ELSE DigitsValue(body, 0)]
     ELSE [ok |-> FALSE, val |-> 0]

\* --------------------------------------------------------------- results
\* What a call gives: a value, or the exception it raises.
NoExc == [type |-> "none", msg |-> ""]
Exc(type, msg) == [type |-> type, msg |-> msg]

\* ------------------------------------------------------------- timedelta
\* datetime.timedelta accepts at most this many days in magnitude.
TimedeltaMaxDays == 1000000000 - 1

\* timedelta(days=d, minutes=m): the duration in minutes, or OverflowError.
timedelta(days, minutes) ==
  LET d == days + (minutes \div 1440)
  IN IF d > TimedeltaMaxDays \/ d < 0 - TimedeltaMaxDays
     THEN [exc |-> Exc("OverflowError", "days; must have magnitude <= 999999999"),
           mins |-> 0]
     ELSE [exc |-> NoExc, mins |-> days * 1440 + minutes]

\* ----------------------------------------------------------- parse_period
\* timedelta(days=k * n) for a day multiple k (1 day, 7 for weeks, the 365
\* of the year approximation): OverflowError past TimedeltaMaxDays.
ScaledDays(n, k) ==
  IF n > TimedeltaMaxDays \div k \/ n < 0 - (TimedeltaMaxDays \div k)
  THEN timedelta(TimedeltaMaxDays + 1, 0)
  ELSE timedelta(k * n, 0)

ParseWith(n, unit) ==
  IF ~n.ok THEN [exc |-> Exc("ValueError", "invalid literal for int()"), mins |-> 0]
  ELSE CASE unit = "m" -> timedelta(0, n.val)
         [] unit = "h" -> timedelta(0, 60 * n.val)
         [] unit = "d" -> ScaledDays(n.val, 1)
         [] unit = "w" -> ScaledDays(n.val, 7)
         [] unit = "y" -> ScaledDays(n.val, 365)

parse_period(str) ==
  LET s == lower(strip(str))
  IN IF endswith(s, "m") THEN ParseWith(int(ButLast(s)), "m")
     ELSE IF endswith(s, "h") THEN ParseWith(int(ButLast(s)), "h")
     ELSE IF endswith(s, "d") THEN ParseWith(int(ButLast(s)), "d")
     ELSE IF endswith(s, "w") THEN ParseWith(int(ButLast(s)), "w")
     ELSE IF endswith(s, "y") THEN ParseWith(int(ButLast(s)), "y")
     ELSE [exc |-> Exc("ValueError", "Unsupported period"), mins |-> 0]

\* -------------------------------------------------------- choose_interval
\* choose_interval with the first rung's bound exclusive.
choose_interval_exclusive(total_mins) ==
  IF total_mins < 120 THEN "1min"
  ELSE IF total_mins <= 2 * 24 * 60 THEN "5min"
  ELSE IF total_mins <= 7 * 24 * 60 THEN "15min"
  ELSE IF total_mins <= 14 * 24 * 60 THEN "30min"
  ELSE IF total_mins <= 30 * 24 * 60 THEN "60min"
  ELSE "daily"

choose_interval(total_mins) ==
  IF total_mins <= 120 THEN "1min"
  ELSE IF total_mins <= 2 * 24 * 60 THEN "5min"
  ELSE IF total_mins <= 7 * 24 * 60 THEN "15min"
  ELSE IF total_mins <= 14 * 24 * 60 THEN "30min"
  ELSE IF total_mins <= 30 * 24 * 60 THEN "60min"
  ELSE "daily"

\* ------------------------------------------------------- points in time
\* Midnight of day 739,000 after datetime.min (a day of 2024), in minutes.
T0 == 739000 * 1440

\* A datetime: its clock value in minutes since datetime.min and, when it
\* carries an offset (tzinfo is not None), the offset in minutes.
Naive(wall) == [wall |-> wall, aware |-> FALSE, off |-> 0]
Aware(wall, off) == [wall |-> wall, aware |-> TRUE, off |-> off]

\* The instant two offset-carrying datetimes are compared by.
Instant(dt) == dt.wall - dt.off

\* dt.astimezone(timezone.utc).replace(tzinfo=None)
ToNaiveUtc(dt) == Naive(dt.wall - dt.off)

\* A provider timestamp string: what isoparse makes of it.  valid = FALSE
\* is a string isoparse rejects.
TsNaive(wall) == [valid |-> TRUE, wall |-> wall, aware |-> FALSE, off |-> 0]
TsAware(wall, off) == [valid |-> TRUE, wall |-> wall, aware |-> TRUE, off |-> off]
TsInvalid == [valid |-> FALSE, wall |-> 0, aware |-> FALSE, off |-> 0]

isoparse(ts_str) ==
  IF ts_str.valid
  THEN [exc |-> NoExc,
        dt |-> [wall |-> ts_str.wall, aware |-> ts_str.aware, off |-> ts_str.off]]
  ELSE [exc |-> Exc("ValueError", "invalid isoformat string"), dt |-> Naive(0)]

\* ------------------------------------------------------------ OHLCV text
\* A field of a payload entry: a decimal text (its value in tenths), a text
\* float() rejects, or no such key in the entry.
Num(tenths) == [st |-> "num", v |-> tenths]
BadText == [st |-> "bad", v |-> 0]
Missing == [st |-> "missing", v |-> 0]

\* float(ohlc[name])
float(field) ==
  CASE field.st = "missing" -> [exc |-> Exc("KeyError", "ohlc field"), v |-> 0]
    [] field.st = "bad" -> [exc |-> Exc("ValueError", "could not convert string to float"), v |-> 0]
    [] OTHER -> [exc |-> NoExc, v |-> field.v]

\* int(x) of a float in tenths: truncation toward zero.
Truncate(tenths) ==
  IF tenths >= 0 THEN tenths \div 10 ELSE 0 - ((0 - tenths) \div 10)

FieldOrder == <<"open", "high", "low", "close", "volume">>

\* The first exception the five conversions of one entry raise, in the
\* order the record literal evaluates them.
RECURSIVE FirstFieldExc(_, _)
FirstFieldExc(ohlc, i) ==
  IF i > Len(FieldOrder) THEN NoExc
  ELSE IF float(ohlc[FieldOrder[i]]).exc # NoExc
       THEN float(ohlc[FieldOrder[i]]).exc
       ELSE FirstFieldExc(ohlc, i + 1)

\* The record appended for one payload entry whose fields all convert.
Record(dt, ohlc) ==
  [time |-> dt,
   open |-> float(ohlc.open).v, high |-> float(ohlc.high).v,
   low |-> float(ohlc.low).v, close |-> float(ohlc.close).v,
   volume |-> Truncate(float(ohlc.volume).v)]

\* ------------------------------------------------------ provider response
\* requests.get + raise_for_status + r.json(): the exception a failed
\* exchange raises. requests' exceptions derive from OSError; a body that
\* is not JSON raises a ValueError subclass.
TransportExc(transport) ==
  CASE transport = "ok" -> NoExc
    [] transport = "BadJSON" -> Exc("ValueError", "JSONDecodeError")
    [] OTHER -> Exc("RequestException", transport)

\* k.startswith("Time Series"), over the top-level keys a response holds.
StartsWithTimeSeries(k) ==
  k \in {"Time Series (1min)", "Time Series (5min)", "Time Series (15min)",
         "Time Series (30min)", "Time Series (60min)", "Time Series (Daily)"}

\* The checks with "Information" looked at before "Note".
CheckNotices_reordered(data) ==
  IF "Information" \in data.keys THEN Exc("RuntimeError", "Alpha Vantage info")
  ELSE IF "Note" \in data.keys THEN Exc("RuntimeError", "Alpha Vantage rate limit")
  ELSE IF "Error Message" \in data.keys THEN Exc("RuntimeError", "Alpha Vantage error")
  ELSE IF ~\E k \in data.keys : StartsWithTimeSeries(k)
       THEN Exc("RuntimeError", "Unexpected response")
  ELSE NoExc

\* The checks of the decoded JSON before the series is read.
CheckNotices(data) ==
  IF "Note" \in data.keys THEN Exc("RuntimeError", "Alpha Vantage rate limit")
  ELSE IF "Information" \in data.keys THEN Exc("RuntimeError", "Alpha Vantage info")
  ELSE IF "Error Message" \in data.keys THEN Exc("RuntimeError", "Alpha Vantage error")
  ELSE IF ~\E k \in data.keys : StartsWithTimeSeries(k)
       THEN Exc("RuntimeError", "Unexpected response")
  ELSE NoExc

\* fetch_intraday's treatment of a parsed timestamp.
NormaliseIntraday(dt_local) ==
  IF ~dt_local.aware THEN dt_local ELSE ToNaiveUtc(dt_local)

\* fetch_daily's: the parsed value as it is.
NormaliseDaily(dt) == dt

\* The loop over ts.items(): the records in payload order, or the first
\* exception.  daily selects fetch_daily's body.
RECURSIVE BuildRecords(_, _, _)
BuildRecords(ts, daily, records) ==
  IF ts = <<>> THEN [exc |-> NoExc, records |-> records]
  ELSE LET entry == Head(ts)
           parsed == isoparse(entry.ts)
           dt == IF daily THEN NormaliseDaily(parsed.dt)
                 ELSE NormaliseIntraday(parsed.dt)
       IN IF parsed.exc # NoExc THEN [exc |-> parsed.exc, records |-> <<>>]
          ELSE IF FirstFieldExc(entry.ohlc, 1) # NoExc
               THEN [exc |-> FirstFieldExc(entry.ohlc, 1), records |-> <<>>]
          ELSE BuildRecords(Tail(ts), daily, Append(records, Record(dt, entry.ohlc)))

\* Whether ordering a against b raises TypeError (one carries an offset,
\* the other does not).
Incomparable(a, b) == a.aware # b.aware

\* a <= b for two comparable datetimes.
DtLeq(a, b) == IF a.aware THEN Instant(a) <= Instant(b) ELSE a.wall <= b.wall

IsSortedByTime(df) ==
  \A i \in 1..Len(df) : \A j \in 1..Len(df) :
    i < j => DtLeq(df[i].time, df[j].time)

\* DataFrame.from_records(records).sort_values("time"): the frames the
\* sort may return (rows of equal time in either order), or its exception.
\* No records give a frame without a "time" column: KeyError.
sort_values(records) ==
  IF records = <<>>
  THEN {[exc |-> Exc("KeyError", "time"), df |-> <<>>]}
  ELSE IF \E i, j \in 1..Len(records) : Incomparable(records[i].time, records[j].time)
  THEN {[exc |-> Exc("TypeError", "can't compare offset-naive and offset-aware datetimes"),
         df |-> <<>>]}
  ELSE {[exc |-> NoExc, df |-> [i \in 1..Len(records) |-> records[p[i]]]] :
          p \in {q \in [1..Len(records) -> 1..Len(records)] :
                   /\ \A i, j \in 1..Len(records) : i # j => q[i] # q[j]
                   /\ IsSortedByTime([i \in 1..Len(records) |-> records[q[i]]])}}

\* The query parameters of the one request a fetch issues.
IntradayParams(symbol, interval, full) ==
  [function |-> "TIME_SERIES_INTRADAY", symbol |-> symbol, interval |-> interval,
   outputsize |-> IF full THEN "full" ELSE "compact"]

DailyParams(symbol, full) ==
  [function |-> "TIME_SERIES_DAILY", symbol |-> symbol, interval |-> "",
   outputsize |-> IF full THEN "full" ELSE "compact"]

\* What follows r.json() in either fetcher.
FetchBody(data, daily) ==
  IF CheckNotices(data) # NoExc
  THEN {[exc |-> CheckNotices(data), df |-> <<>>]}
  ELSE LET built == BuildRecords(data.series, daily, <<>>)
       IN IF built.exc # NoExc THEN {[exc |-> built.exc, df |-> <<>>]}
          ELSE sort_values(built.records)

\* fetch_intraday / fetch_daily on the response the provider gives: the
\* outcomes the call may have.
fetch_intraday(response) ==
  IF TransportExc(response.transport) # NoExc
  THEN {[exc |-> TransportExc(response.transport), df |-> <<>>]}
  ELSE FetchBody(response.data, FALSE)

fetch_daily(response) ==
  IF TransportExc(response.transport) # NoExc
  THEN {[exc |-> TransportExc(response.transport), df |-> <<>>]}
  ELSE FetchBody(response.data, TRUE)

\* ----------------------------------------------------------- window filter
\* now_local - lookback: OverflowError when it falls before datetime.min.
Cutoff(now_local, lookback) ==
  IF now_local - lookback < 0
  THEN [exc |-> Exc("OverflowError", "date value out of range"), cutoff |-> 0]
  ELSE [exc |-> NoExc, cutoff |-> now_local - lookback]

\* The filter with the cutoff itself excluded.
WindowFilter_strict(df, cutoff) ==
  IF \E i \in 1..Len(df) : df[i].time.aware
  THEN [exc |-> Exc("TypeError", "Invalid comparison between tz-aware and naive datetime"),
        df_window |-> <<>>]
  ELSE [exc |-> NoExc,
        df_window |-> SelectSeq(df, LAMBDA bar : bar.time.wall > cutoff)]

\* df[df["time"] >= cutoff].copy(): cutoff carries no offset, so a frame
\* whose times carry one cannot be compared with it.
WindowFilter(df, cutoff) ==
  IF \E i \in 1..Len(df) : df[i].time.aware
  THEN [exc |-> Exc("TypeError", "Invalid comparison between tz-aware and naive datetime"),
        df_window |-> <<>>]
  ELSE [exc |-> NoExc,
        df_window |-> SelectSeq(df, LAMBDA bar : bar.time.wall >= cutoff)]

\* ----------------------------------------------------------- get_stock_data
\* The threshold of the full output taken inclusive.
UseFullOutput_inclusive(lookback) == lookback >= 100 * 24 * 60

\* lookback > timedelta(days=100)
UseFullOutput(lookback) == lookback > 100 * 24 * 60

\* The locals of a get_stock_data call that has not assigned any yet.
NoLocals ==
  [exc |-> NoExc, lookback |-> 0, interval |-> "", use_full_output |-> FALSE,
   sent |-> <<>>, df |-> <<>>, cutoff |-> 0, df_window |-> <<>>]

\* The statements after the fetch returned outcome f.
AfterFetch(locals, f, now_local) ==
  IF f.exc # NoExc THEN [locals EXCEPT !.exc = f.exc]
  ELSE LET c == Cutoff(now_local, locals.lookback)
           w == WindowFilter(f.df, c.cutoff)
       IN IF c.exc # NoExc THEN [locals EXCEPT !.exc = c.exc, !.df = f.df]
          ELSE IF w.exc # NoExc
               THEN [locals EXCEPT !.exc = w.exc, !.df = f.df, !.cutoff = c.cutoff]
          ELSE [locals EXCEPT !.df = f.df, !.cutoff = c.cutoff,
                              !.df_window = w.df_window]

\* get_stock_data(symbol, period_str) with the environment's API key, the
\* response the provider gives to the request and the clock's reading: the
\* ways the call may end, each with the locals it assigned, the requests
\* it sent and the exception it raised (exc = NoExc: it returned
\* df_window, interval).
get_stock_data(api_key, symbol, period_str, response, now_local) ==
  IF api_key = ""
  THEN {[NoLocals EXCEPT !.exc = Exc("ValueError", "API key not configured")]}
  ELSE LET p == parse_period(period_str)
           interval == choose_interval(p.mins)
           full == UseFullOutput(p.mins)
           locals == [NoLocals EXCEPT !.lookback = p.mins, !.interval = interval,
                                      !.use_full_output = full]
       IN IF p.exc # NoExc THEN {[NoLocals EXCEPT !.exc = p.exc]}
          ELSE IF interval = "daily"
          THEN {AfterFetch([locals EXCEPT !.sent = <<DailyParams(symbol, full)>>],
                           f, now_local) : f \in fetch_daily(response)}
          ELSE {AfterFetch([locals EXCEPT
                              !.sent = <<IntradayParams(symbol, interval, full)>>],
                           f, now_local) : f \in fetch_intraday(response)}

\* The exceptions both adapters catch: except (ValueError, RuntimeError).
Caught(e) == e.type \in {"ValueError", "RuntimeError"}

\* ------------------------------------------------------------------ inputs
\* The characters period strings are drawn from: digits, signs, blanks, the
\* underscore and the point, the five units and an upper-case letter.
Alphabet ==
  {"0", "1", "3", "-", "+", " ", "_", ".", "m", "h", "d", "w", "y", "H"}

Strings(n) == UNION {[1..k -> Alphabet] : k \in 0..n}

\* Periods of the documentation and of the thresholds, longer than MaxLen.
ScenarioPeriods ==
  {<<"9", "0", "m">>, <<"1", "2", "0", "m">>, <<"1", "2", "1", "m">>,
   <<"2", "8", "8", "0", "m">>, <<"2", "8", "8", "1", "m">>,
   <<"1", "6", "8", "h">>, <<"1", "6", "9", "h">>,
   <<"1", "0", "d">>, <<"1", "4", "d">>, <<"1", "5", "d">>,
   <<"3", "0", "d">>, <<"3", "1", "d">>,
   <<"1", "0", "0", "d">>, <<"1", "0", "1", "d">>, <<"1", "5", "0", "d">>,
   <<"1", "h", "3", "0", "m">>, <<"1", ".", "5", "h">>, <<" ", "2", "W", " ">>,
   <<"3", "0", "0", "0", "y">>,
   <<"1", "0", "0", "0", "0", "0", "0", "0", "0", "0", "d">>}

\* The periods the adapters are exercised with.
AdapterPeriods ==
  {<<"9", "0", "m">>, <<"0", "m">>, <<"1", "0", "d">>, <<"1", "5", "0", "d">>,
   <<"5", "x">>, <<"-", "5", "m">>, <<"3", "0", "0", "0", "y">>,
   <<"1", "0", "0", "0", "0", "0", "0", "0", "0", "0", "d">>}

\* The periods the fetchers are exercised with: windows that end before,
\* at and after the bars of the payloads, and one that selects daily bars.
FetchPeriods ==
  {<<"0", "m">>, <<"6", "0", "m">>, <<"9", "0", "m">>, <<"3", "h">>, <<"1", "y">>}

\* Provider timestamps: two clock values an hour apart, each without an
\* offset, with +00:00 and with +01:00.
Walls == {T0, T0 + 60}
Offsets == {0, 60}
TsKeys ==
  {TsNaive(w) : w \in Walls} \cup {TsAware(w, o) : w \in Walls, o \in Offsets}

\* The clock reading of every run: two hours after T0.
Now == T0 + 120

\* Sequences of distinct timestamp keys (a JSON object's keys, in order).
KeySeqs(n) ==
  UNION {{ks \in [1..k -> TsKeys] : \A i, j \in 1..k : i # j => ks[i] # ks[j]} :
           k \in 0..n}

GoodOhlc(i) ==
  [open |-> Num(1000), high |-> Num(1010), low |-> Num(990),
   close |-> Num(1000 + i), volume |-> Num(1275)]

NoFault == [at |-> 0, kind |-> "none"]
Faults(k) ==
  {NoFault} \cup
  {[at |-> i, kind |-> kind] :
     i \in 1..k, kind \in {"bad timestamp", "bad close", "missing volume"}}

\* The payload with keys ks, entry fault.at spoiled as fault.kind says.
Payload(ks, fault) ==
  [i \in 1..Len(ks) |->
     [ts |-> IF fault.at = i /\ fault.kind = "bad timestamp" THEN TsInvalid ELSE ks[i],
      ohlc |-> IF fault.at = i /\ fault.kind = "bad close"
               THEN [GoodOhlc(i) EXCEPT !.close = BadText]
               ELSE IF fault.at = i /\ fault.kind = "missing volume"
               THEN [GoodOhlc(i) EXCEPT !.volume = Missing]
               ELSE GoodOhlc(i)]]

Response(transport, keys, series) ==
  [transport |-> transport, data |-> [keys |-> keys, series |-> series]]

TransportFailures ==
  {Response(t, {}, <<>>) : t \in {"ConnectionError", "Timeout", "HTTPError", "BadJSON"}}

\* One bar at T0 + 60, and two bars at T0 and T0 + 60.
OneBar == Payload(<<TsNaive(T0 + 60)>>, NoFault)
TwoBars == Payload(<<TsNaive(T0 + 60), TsNaive(T0)>>, NoFault)

\* HTTP-200 responses with every combination of the notice keys, with and
\* without a series key.
NoticeResponses ==
  {Response("ok", notices \cup series, IF series = {} THEN <<>> ELSE OneBar) :
     notices \in SUBSET {"Note", "Information", "Error Message", "Meta Data"},
     series \in {{}, {"Time Series (5min)"}, {"Time Series (Daily)"}}}

\* HTTP-200 responses that hold a series of at most n entries.
SeriesResponses(n) ==
  UNION {{Response("ok", {"Meta Data", "Time Series (5min)"}, Payload(ks, f)) :
            f \in Faults(Len(ks))} : ks \in KeySeqs(n)}

AdapterResponses ==
  TransportFailures \cup NoticeResponses \cup
  {Response("ok", {"Time Series (5min)"}, series) :
     series \in {<<>>, OneBar, TwoBars,
                 Payload(<<TsNaive(T0)>>, [at |-> 1, kind |-> "missing volume"]),
                 Payload(<<TsNaive(T0)>>, [at |-> 1, kind |-> "bad close"]),
                 Payload(<<TsAware(T0, 60), TsNaive(T0)>>, NoFault)}}

\* sys.argv: its length, and the two positional arguments when present.
Argv(argc, symbol, period) == [argc |-> argc, symbol |-> symbol, period |-> period]

Inputs(argvs, keys, responses) ==
  {[argv |-> a, env_key |-> k, provider |-> r] :
     a \in argvs, k \in keys, r \in responses}

\* The runs of the adapters: the web server (no argument), wrong argument
\* counts, and command lines with and without the API key.
AdapterInputs ==
  Inputs({Argv(1, "", <<>>)}, {"", "demo"}, {Response("ok", {}, <<>>)})
  \cup Inputs({Argv(2, "AAPL", <<>>), Argv(4, "AAPL", <<"9", "0", "m">>)},
              {"demo"}, {Response("ok", {"Time Series (5min)"}, OneBar)})
  \cup Inputs({Argv(3, "AAPL", p) : p \in AdapterPeriods}, {"", "demo"},
              AdapterResponses)

PeriodInputs ==
  AdapterInputs \cup
  Inputs({Argv(3, "AAPL", p) : p \in Strings(MaxLen) \cup ScenarioPeriods},
         {"demo"}, {Response("ok", {"Time Series (5min)"}, TwoBars)})

FetchInputs ==
  AdapterInputs \cup
  Inputs({Argv(3, "AAPL", p) : p \in FetchPeriods}, {"demo"},
         TransportFailures \cup NoticeResponses \cup SeriesResponses(MaxBars))

\* The web form submissions, and the responses the provider gives them.
Requests == {1, 2}
WebForms ==
  {[symbol |-> sym, period |-> p] :
     sym \in {"AAPL", "MSFT"}, p \in {<<"0", "m">>, <<"9", "0", "m">>, <<"3", "h">>}}
WebResponses ==
  {Response("Timeout", {}, <<>>), Response("ok", {"Note"}, <<>>),
   Response("ok", {"Time Series (5min)"}, OneBar),
   Response("ok", {"Time Series (5min)"}, TwoBars)}

\* ------------------------------------------------------------------- state
VARIABLES
  argv,        \* sys.argv
  env_key,     \* os.getenv("ALPHAVANTAGE_API_KEY"), "" when unset
  provider,    \* the response the provider gives the command line's request
  pc,          \* where the process is
  locals,      \* main_cli: what its get_stock_data call assigned
  exit_code,   \* the process's exit status, -1 while it runs
  out,         \* what main_cli printed and showed
  w_pc,        \* per web request: where its handler is
  w_form,      \* per web request: request.form
  w_locals,    \* per web request: what its get_stock_data call assigned
  w_page,      \* per web request: the page returned
  figs,        \* pyplot's figures, the last one current
  chart_file   \* static/stock_plot.png: <<>> or <<the figure saved>>

vars ==
  <<argv, env_key, provider, pc, locals, exit_code, out,
    w_pc, w_form, w_locals, w_page, figs, chart_file>>

cli_vars == <<locals, exit_code, out>>
web_vars == <<w_pc, w_form, w_locals, w_page, figs, chart_file>>
input_vars == <<argv, env_key, provider>>

NoForm == [symbol |-> "", period |-> <<>>]
NoPage == [kind |-> "none", error |-> "", plot_url |-> "", data |-> <<>>]
ErrorPage(msg) == [NoPage EXCEPT !.kind = "page", !.error = msg]
NoTitle == [symbol |-> "", interval |-> ""]
NewFigure == [lines |-> <<>>, title |-> NoTitle]

InitWith(inputs) ==
  /\ \E i \in inputs :
       /\ argv = i.argv
       /\ env_key = i.env_key
       /\ provider = i.provider
  /\ pc = "start"
  /\ locals = NoLocals
  /\ exit_code = -1
  /\ out = <<>>
  /\ w_pc = [r \in Requests |-> "idle"]
  /\ w_form = [r \in Requests |-> NoForm]
  /\ w_locals = [r \in Requests |-> NoLocals]
  /\ w_page = [r \in Requests |-> NoPage]
  /\ figs = <<>>
  /\ chart_file = <<>>

Init == InitWith(AdapterInputs)
InitPeriod == InitWith(PeriodInputs)
InitFetch == InitWith(FetchInputs)

\* ------------------------------------------------------------ command line
\* if __name__ == "__main__": main_cli() with arguments, else app.run().
Dispatch ==
  /\ pc = "start"
  /\ pc' = IF argv.argc > 1 THEN "main_cli" ELSE "app.run"
  /\ UNCHANGED <<input_vars, cli_vars, web_vars>>

Printed(kind, text, rows) == [kind |-> kind, text |-> text, rows |-> rows]

\* main_cli: the argument count check.
CheckArgs ==
  /\ pc = "main_cli"
  /\ IF argv.argc # 3
     THEN /\ out' = Append(out, Printed("usage", "Usage: python app.py <symbol> <period>", <<>>))
          /\ exit_code' = 1
          /\ pc' = "exit"
     ELSE /\ pc' = "get_stock_data"
          /\ UNCHANGED <<out, exit_code>>
  /\ UNCHANGED <<input_vars, locals, web_vars>>

\* main_cli: the call of get_stock_data inside try.
CallGetStockData ==
  /\ pc = "get_stock_data"
  /\ \E o \in get_stock_data(env_key, argv.symbol, argv.period, provider, Now) :
       /\ locals' = o
       /\ pc' = IF o.exc = NoExc THEN "returned" ELSE "raised"
  /\ UNCHANGED <<input_vars, exit_code, out, web_vars>>

\* main_cli: except (ValueError, RuntimeError).
ExceptClause ==
  /\ pc = "raised"
  /\ Caught(locals.exc)
  /\ out' = Append(out, Printed("error", locals.exc.msg, <<>>))
  /\ exit_code' = 1
  /\ pc' = "exit"
  /\ UNCHANGED <<input_vars, locals, web_vars>>

\* An exception no clause catches ends the process with a traceback.
Uncaught ==
  /\ pc = "raised"
  /\ ~Caught(locals.exc)
  /\ out' = Append(out, Printed("traceback", locals.exc.type, <<>>))
  /\ exit_code' = 1
  /\ pc' = "exit"
  /\ UNCHANGED <<input_vars, locals, web_vars>>

\* main_cli: if df_window.empty.
NoData ==
  /\ pc = "returned"
  /\ locals.df_window = <<>>
  /\ out' = Append(out, Printed("nodata", "No data in the requested window.", <<>>))
  /\ exit_code' = 0
  /\ pc' = "exit"
  /\ UNCHANGED <<input_vars, locals, web_vars>>

\* main_cli: the table is printed, the chart shown, and main_cli returns.
PrintAndPlot ==
  /\ pc = "returned"
  /\ locals.df_window # <<>>
  /\ out' = out \o <<Printed("table", "", locals.df_window),
                     Printed("plot", locals.interval, locals.df_window)>>
  /\ exit_code' = 0
  /\ pc' = "exit"
  /\ UNCHANGED <<input_vars, locals, web_vars>>

\* --------------------------------------------------------------- web form
\* stockdata: a submission arrives and its form is read.
Submit(r) ==
  /\ pc = "app.run"
  /\ w_pc[r] = "idle"
  /\ \E form \in WebForms : w_form' = [w_form EXCEPT ![r] = form]
  /\ w_pc' = [w_pc EXCEPT ![r] = "get_stock_data"]
  /\ UNCHANGED <<input_vars, pc, cli_vars, w_locals, w_page, figs, chart_file>>

\* What Flask answers when the handler raises.
InternalServerError == [NoPage EXCEPT !.kind = "500"]

\* The result kept in module-level names, which every request shares.
StoreLocals_shared(all, r, o) == [q \in DOMAIN all |-> o]

\* df_window, interval = get_stock_data(symbol, period_str): the handler's
\* own locals.
StoreLocals(all, r, o) == [all EXCEPT ![r] = o]

\* stockdata: the call of get_stock_data inside try, and its except clause.
WebGetStockData(r) ==
  /\ pc = "app.run"
  /\ w_pc[r] = "get_stock_data"
  /\ \E response \in WebResponses :
       \E o \in get_stock_data(env_key, w_form[r].symbol, w_form[r].period,
                               response, Now) :
         /\ w_locals' = StoreLocals(w_locals, r, o)
         /\ IF o.exc = NoExc
            THEN /\ w_pc' = [w_pc EXCEPT ![r] = "returned"]
                 /\ UNCHANGED w_page
            ELSE /\ w_pc' = [w_pc EXCEPT ![r] = "done"]
                 /\ w_page' = [w_page EXCEPT ![r] =
                                 IF Caught(o.exc) THEN ErrorPage(o.exc.msg)
                                 ELSE InternalServerError]
  /\ UNCHANGED <<input_vars, pc, cli_vars, w_form, figs, chart_file>>

\* stockdata: if df_window.empty.
WebNoData(r) ==
  /\ pc = "app.run"
  /\ w_pc[r] = "returned"
  /\ w_locals[r].df_window = <<>>
  /\ w_page' = [w_page EXCEPT ![r] = ErrorPage("No data in the requested window.")]
  /\ w_pc' = [w_pc EXCEPT ![r] = "done"]
  /\ UNCHANGED <<input_vars, pc, cli_vars, w_form, w_locals, figs, chart_file>>

\* plt.figure(): a new figure, which becomes the current one.
PltFigure(r) ==
  /\ pc = "app.run"
  /\ w_pc[r] = "returned"
  /\ w_locals[r].df_window # <<>>
  /\ figs' = Append(figs, NewFigure)
  /\ w_pc' = [w_pc EXCEPT ![r] = "plot"]
  /\ UNCHANGED <<input_vars, pc, cli_vars, w_form, w_locals, w_page, chart_file>>

\* plt.plot(time, close): a line on the current figure.
PltPlot(r) ==
  /\ pc = "app.run"
  /\ w_pc[r] = "plot"
  /\ figs' = [figs EXCEPT ![Len(figs)].lines = Append(@, w_locals[r].df_window)]
  /\ w_pc' = [w_pc EXCEPT ![r] = "title"]
  /\ UNCHANGED <<input_vars, pc, cli_vars, w_form, w_locals, w_page, chart_file>>

\* plt.title(...) to plt.tight_layout(): the current figure's decoration.
PltTitle(r) ==
  /\ pc = "app.run"
  /\ w_pc[r] = "title"
  /\ figs' = [figs EXCEPT ![Len(figs)].title =
                [symbol |-> w_form[r].symbol, interval |-> w_locals[r].interval]]
  /\ w_pc' = [w_pc EXCEPT ![r] = "savefig"]
  /\ UNCHANGED <<input_vars, pc, cli_vars, w_form, w_locals, w_page, chart_file>>

\* plt.savefig('static/stock_plot.png'): the current figure, to the one path.
PltSavefig(r) ==
  /\ pc = "app.run"
  /\ w_pc[r] = "savefig"
  /\ chart_file' = <<figs[Len(figs)]>>
  /\ w_pc' = [w_pc EXCEPT ![r] = "render"]
  /\ UNCHANGED <<input_vars, pc, cli_vars, w_form, w_locals, w_page, figs>>

\* render_template('index.html', plot_url=..., data=df_window.to_html()).
Render(r) ==
  /\ pc = "app.run"
  /\ w_pc[r] = "render"
  /\ w_page' = [w_page EXCEPT ![r] =
                  [NoPage EXCEPT !.kind = "page", !.plot_url = "/static/stock_plot.png",
                                 !.data = w_locals[r].df_window]]
  /\ w_pc' = [w_pc EXCEPT ![r] = "done"]
  /\ UNCHANGED <<input_vars, pc, cli_vars, w_form, w_locals, figs, chart_file>>

stockdata(r) ==
  \/ Submit(r)
  \/ WebGetStockData(r)
  \/ WebNoData(r)
  \/ PltFigure(r)
  \/ PltPlot(r)
  \/ PltTitle(r)
  \/ PltSavefig(r)
  \/ Render(r)

main_cli ==
  \/ CheckArgs
  \/ CallGetStockData
  \/ ExceptClause
  \/ Uncaught
  \/ NoData
  \/ PrintAndPlot

Next ==
  \/ Dispatch
  \/ main_cli
  \/ \E r \in Requests : stockdata(r)

\* The program on the adapters' inputs, on every period string up to
\* MaxLen, and on every provider payload up to MaxBars.
Spec == Init /\ [][Next]_vars
SpecPeriod == InitPeriod /\ [][Next]_vars
SpecFetch == InitFetch /\ [][Next]_vars

\* ------------------------------------------------------------------ claims
\* The locals of every get_stock_data call made so far.
AllLocals == {locals} \cup {w_locals[r] : r \in Requests}

\* The command line's call of get_stock_data has ended.
CallEnded == pc \in {"returned", "raised", "exit"} /\ argv.argc = 3

UnitLetters == {"m", "h", "d", "w", "y"}

\* The minutes of one unit, as the documentation gives them.
UnitFactor(u) ==
  CASE u = "m" -> 1 [] u = "h" -> 60 [] u = "d" -> 1440
    [] u = "w" -> 10080 [] u = "y" -> 365 * 1440

\* s is a non-negative integer immediately followed by one unit letter.
IsIntegerThenUnit(s) ==
  /\ Len(s) >= 2
  /\ s[Len(s)] \in UnitLetters
  /\ \A i \in 1..(Len(s) - 1) : s[i] \in DigitChars

\* C1: parse_period returns the integer times the unit factor for every
\* string that, trimmed and lower-cased, is a non-negative integer
\* immediately followed by one unit letter, and fails with a ParseError
\* (ValueError, before any request is sent) for every other string.
C1_ParsePeriodContract ==
  (CallEnded /\ env_key # "") =>
    LET s == lower(strip(argv.period))
    IN IF IsIntegerThenUnit(s)
       THEN /\ locals.sent # <<>>
            /\ locals.lookback = DigitsValue(ButLast(s), 0) * UnitFactor(s[Len(s)])
       ELSE /\ locals.sent = <<>>
            /\ locals.exc.type = "ValueError"

\* The ladder as the specification tabulates it.
LadderInterval(T) ==
  IF T <= 120 THEN "1min"
  ELSE IF T <= 2880 THEN "5min"
  ELSE IF T <= 10080 THEN "15min"
  ELSE IF T <= 20160 THEN "30min"
  ELSE IF T <= 43200 THEN "60min"
  ELSE "daily"

Rank(interval) ==
  CASE interval = "1min" -> 1 [] interval = "5min" -> 2 [] interval = "15min" -> 3
    [] interval = "30min" -> 4 [] interval = "60min" -> 5 [] interval = "daily" -> 6

\* Durations on both sides of every rung.
LadderPoints ==
  {0, 1, 119, 120, 121, 2879, 2880, 2881, 10079, 10080, 10081,
   20159, 20160, 20161, 43199, 43200, 43201, 144000, 525600}

\* C2: for a non-negative duration of T minutes choose_interval returns the
\* first rung of the ladder T satisfies (bounds inclusive), and a longer
\* duration never selects a finer interval than a shorter one.
C2_IntervalLadder ==
  \A l \in AllLocals :
    (l.sent # <<>> /\ l.lookback >= 0) =>
      /\ l.interval = LadderInterval(l.lookback)
      /\ \A t \in LadderPoints :
           /\ t <= l.lookback => Rank(choose_interval(t)) <= Rank(l.interval)
           /\ l.lookback <= t => Rank(l.interval) <= Rank(choose_interval(t))

\* C2's case: the inclusive bound of a rung ("14d" is 20160 minutes) and a
\* duration past the last rung have both been classified.
C2_Witness ==
  /\ pc = "exit"
  /\ locals.sent # <<>>
  /\ \/ locals.lookback = 20160 /\ locals.interval = "30min"
     \/ locals.lookback = 120 /\ locals.interval = "1min"

\* C9: get_stock_data sends one request; its outputsize is "full" when the
\* lookback exceeds 100 days and "compact" otherwise (nothing in the code
\* requests full output explicitly); it goes to the daily endpoint exactly
\* when the selected interval is daily, and otherwise to the intraday
\* endpoint with the selected interval.
C9_OutputSizeAndEndpoint ==
  \A l \in AllLocals :
    l.sent # <<>> =>
      /\ Len(l.sent) = 1
      /\ l.sent[1].outputsize = (IF l.lookback > 100 * 1440 THEN "full" ELSE "compact")
      /\ (l.sent[1].function = "TIME_SERIES_DAILY") <=> (l.interval = "daily")
      /\ l.interval # "daily" =>
           /\ l.sent[1].function = "TIME_SERIES_INTRADAY"
           /\ l.sent[1].interval = l.interval

\* C9's case: "100d" went out compact and to the daily endpoint.
C9_Witness ==
  /\ pc = "exit"
  /\ argv.period = <<"1", "0", "0", "d">>
  /\ locals.sent = <<DailyParams("AAPL", FALSE)>>

\* The outcomes the fetch of the command line's call may have.
FetchOutcomes ==
  IF locals.interval = "daily" THEN fetch_daily(provider) ELSE fetch_intraday(provider)

\* C3: every bar either fetcher produces has a time without offset marker,
\* so that the comparison with the cutoff is defined for the whole series.
C3_TimesComparable ==
  (CallEnded /\ locals.sent # <<>>) =>
    /\ \A i \in 1..Len(locals.df) : ~locals.df[i].time.aware
    /\ locals.exc.type # "TypeError"

\* C4: when get_stock_data returns, the window is the trailing part of the
\* fetched series that starts at the first bar with time >= now - lookback
\* (a bar at the cutoff is kept, every earlier bar dropped, order kept);
\* filtering the window again gives the window; the fetched series is
\* still the one the fetcher returned.
C4_WindowFilter ==
  (CallEnded /\ locals.sent # <<>> /\ locals.exc = NoExc) =>
    LET df == locals.df
        w == locals.df_window
        c == Now - locals.lookback
    IN /\ locals.cutoff = c
       /\ IsSortedByTime(df)
       /\ \E k \in 0..Len(df) :
            /\ w = SubSeq(df, k + 1, Len(df))
            /\ \A i \in 1..k : df[i].time.wall < c
            /\ \A i \in (k + 1)..Len(df) : df[i].time.wall >= c
       /\ WindowFilter(w, c) = [exc |-> NoExc, df_window |-> w]
       /\ df \in {f.df : f \in FetchOutcomes}

\* C4's case: a bar before the cutoff was dropped and a bar at the cutoff
\* was kept.
C4_Witness ==
  /\ pc = "exit"
  /\ locals.exc = NoExc
  /\ locals.df_window # <<>>
  /\ Len(locals.df_window) < Len(locals.df)
  /\ locals.df_window[1].time.wall = locals.cutoff

\* An HTTP-200 response without notice whose series entries all parse.
CleanSeries(response) ==
  /\ response.transport = "ok"
  /\ response.data.keys \cap {"Note", "Information", "Error Message"} = {}
  /\ \E k \in response.data.keys : StartsWithTimeSeries(k)
  /\ \A i \in 1..Len(response.data.series) :
       /\ response.data.series[i].ts.valid
       /\ \A name \in {"open", "high", "low", "close", "volume"} :
            response.data.series[i].ohlc[name].st = "num"

\* C5: a response whose series has N distinct timestamp keys (N >= 1 here)
\* gives a frame of N bars, ascending by time, no two bars with the same
\* time.
C5_FetchRoundTrip ==
  (CallEnded /\ locals.sent # <<>> /\ CleanSeries(provider)
     /\ provider.data.series # <<>>) =>
    \A f \in FetchOutcomes :
      /\ f.exc = NoExc
      /\ Len(f.df) = Len(provider.data.series)
      /\ IsSortedByTime(f.df)
      /\ \A i, j \in 1..Len(f.df) :
           i < j => ~DtLeq(f.df[j].time, f.df[i].time)

\* C6: on an HTTP-200 JSON response either fetcher looks at "Note", then
\* "Information", then "Error Message" before the series key: the first
\* present decides the failure (rate limit, info, error), a series key
\* notwithstanding, and no bars are returned; with none of them and no
\* "Time Series" key the failure is the unexpected response.
C6_NoticePrecedence ==
  (CallEnded /\ locals.sent # <<>> /\ provider.transport = "ok") =>
    LET keys == provider.data.keys
        failed(msg) ==
          /\ locals.exc = Exc("RuntimeError", msg)
          /\ locals.df = <<>>
          /\ locals.df_window = <<>>
    IN /\ "Note" \in keys => failed("Alpha Vantage rate limit")
       /\ ("Note" \notin keys /\ "Information" \in keys) => failed("Alpha Vantage info")
       /\ ({"Note", "Information"} \cap keys = {} /\ "Error Message" \in keys)
            => failed("Alpha Vantage error")
       /\ ({"Note", "Information", "Error Message"} \cap keys = {}
            /\ ~\E k \in keys : StartsWithTimeSeries(k))
            => failed("Unexpected response")

\* C6's case: the daily fetcher met "Note" and "Information" beside a
\* series key and raised the rate limit failure.
C6_Witness ==
  /\ pc = "raised"
  /\ locals.interval = "daily"
  /\ {"Note", "Information", "Time Series (Daily)"} \subseteq provider.data.keys
  /\ locals.exc = Exc("RuntimeError", "Alpha Vantage rate limit")

\* C7: the command line ends with exit code 2 on a usage or parse error
\* (wrong arguments, missing API key, bad period), 1 on a fetch-stage
\* failure, 0 on success and on an empty window.
C7_ExitCodes ==
  pc = "exit" =>
    exit_code =
      IF argv.argc # 3 \/ env_key = "" \/ parse_period(argv.period).exc # NoExc
      THEN 2
      ELSE IF locals.exc # NoExc THEN 1 ELSE 0

\* The fetch-stage failures: the four provider notices, a missing or
\* unparsable OHLCV field, and a failed HTTP exchange.
FetchStageFailure(e) ==
  \/ e \in {Exc("RuntimeError", msg) :
              msg \in {"Alpha Vantage rate limit", "Alpha Vantage info",
                       "Alpha Vantage error", "Unexpected response"}}
  \/ e = Exc("KeyError", "ohlc field")
  \/ e = Exc("ValueError", "could not convert string to float")
  \/ e.type = "RequestException"

\* C8: every fetch-stage failure is caught by the adapter it happens in
\* and ends the run with a user-facing error message, after one request
\* and without bar data rendered.
C8_FetchFailuresCaught ==
  /\ (pc = "exit" /\ FetchStageFailure(locals.exc)) =>
       /\ Len(locals.sent) = 1
       /\ Len(out) = 1
       /\ out[1].kind = "error"
  /\ \A r \in Requests :
       (w_pc[r] = "done" /\ FetchStageFailure(w_locals[r].exc)) =>
         /\ Len(w_locals[r].sent) = 1
         /\ w_page[r].kind = "page"
         /\ w_page[r].error # ""
         /\ w_page[r].data = <<>>

\* What belongs to request q alone.
RequestLocal(q) == <<w_pc[q], w_form[q], w_locals[q], w_page[q]>>

\* C10 as stated: the chart file is the only writable artifact the
\* requests share, so a step writes, besides the file, only what belongs
\* to one request.
C10_OnlyChartFileShared ==
  [][/\ figs' = figs
     /\ \E r \in Requests :
          \A q \in Requests \ {r} : RequestLocal(q)' = RequestLocal(q)]_vars

\* C10 as amended: the bar series, cutoff and interval of a request are its
\* own (no step writes what belongs to two requests), the table of a
\* returned page is the request's own window, and the chart it links is
\* the one file.
C10_RequestsIsolated ==
  /\ [](\A r \in Requests :
          w_page[r].plot_url # "" =>
            /\ w_page[r].data = w_locals[r].df_window
            /\ chart_file # <<>>)
  /\ [][\E r \in Requests :
          \A q \in Requests \ {r} : RequestLocal(q)' = RequestLocal(q)]_vars

\* C10's case: the page of request r is returned with r's own table while
\* the chart file holds the figure of the other request, still in flight,
\* drawn from other bars.
C10_Witness ==
  \E r \in Requests : \E q \in Requests \ {r} :
    /\ w_pc[r] = "done"
    /\ w_page[r].plot_url # ""
    /\ w_page[r].data = w_locals[r].df_window
    /\ w_pc[q] = "render"
    /\ w_locals[q].df_window # w_locals[r].df_window
    /\ chart_file = <<[lines |-> <<w_locals[q].df_window>>,
                       title |-> [symbol |-> w_form[q].symbol,
                                  interval |-> w_locals[q].interval]]>>
====
